---- MODULE Spec2Model ----
(***************************************************************************)
(* A model of the option_box crate: OptionBox<T> (src/src/option_box.rs)   *)
(* and OptionArc<T> (src/src/option_arc.rs), two write-once slots built on *)
(* one AtomicPtr<T>.  The two types have the same code; they differ only   *)
(* in the owner that is turned into a raw address and back (Box<T>,        *)
(* Arc<T>).  The variable kind says which of the two types a behaviour is  *)
(* about.                                                                  *)
(*                                                                         *)
(* Threads call set, deref and clone on shared slots (&self methods), and  *)
(* drop or into_inner a slot when no call borrows it (&mut self, self).    *)
(* Every atomic access of the code is one step.  A panic ends its thread.  *)
(*                                                                         *)
(* Memory ordering: ord[s] is the ordering of the store that wrote ptr[s],  *)
(* and a load synchronises with it when the store is a Release and the     *)
(* load an Acquire (or the address was there when the slot was handed to   *)
(* its users).  Reading the contents of an address through a load that did *)
(* not synchronise, or of a destroyed value, is undefined behaviour: the   *)
(* value or a torn one (Garbage) may be read.                              *)
(***************************************************************************)
EXTENDS Integers, FiniteSets

\* Bounds of the model.
NThreads == 2
MaxAddr == 2
MaxSlot == 2
MaxOwners == 2

\* std::ptr::null_mut(): the address of an unset slot.
Null == 0

Threads == 1..NThreads
Addrs == 1..MaxAddr
Slots == 1..MaxSlot
\* The value Box::new / Arc::new writes at address a is named a; a read that
\* is undefined behaviour may return a torn value instead.
Garbage == MaxAddr + 1

VARIABLES
    kind,        \* "Box": OptionBox<T>; "Arc": OptionArc<T>
    \* ---- the slots: struct OptionBox / OptionArc
    nslots,      \* number of slots constructed so far
    slotState,   \* "unborn", "live", "dropped" (Drop ran), "consumed" (into_inner)
    ptr,         \* the AtomicPtr<T> field: Null or an address
    ord,         \* the ordering of the store that wrote ptr
    \* ---- the heap: allocations of Box<T> / Arc<T>
    next,        \* next fresh address
    val,         \* contents of T (0: never allocated)
    strong,      \* Arc: the strong count. Box: 1 while allocated, 0 once freed
    ext,         \* owners (Box<T> / Arc<T> handles) held outside any slot
    drops,       \* times T's destructor ran on the value at the address
    created,     \* owners ever created for the address
    released,    \* owners ever released for the address
    \* ---- the threads
    pc,          \* position of each thread
    tslot,       \* the slot (&self) the thread's call is on
    traw,        \* the local `raw`
    sync,        \* the thread's load of ptr synchronised with the store it read
    err,         \* the panic that ended the thread
    tfreed,      \* times the thread's set call released its argument
    \* ---- history (not state of the program)
    initial,     \* the address the slot was constructed with
    installed,   \* the first non-null address the slot held
    setOk,       \* set calls on the slot that returned normally
    ret,         \* what into_inner returned: {} is None, {a} is Some(owner of a)
    torn,        \* some read returned a torn value
    origin       \* the slot a clone was made from (0: not made by clone)

slotVars == <<nslots, slotState, ptr, ord>>
heapVars == <<next, val, strong, ext, drops, created, released>>
thrVars == <<pc, tslot, traw, sync, err, tfreed>>
histVars == <<initial, installed, setOk, ret, torn, origin>>
vars == <<kind, slotVars, heapVars, thrVars, histVars>>

----------------------------------------------------------------------------
\* The owning-pointer runtime (std): Box<T> and Arc<T>.  Owners that are not
\* in a slot are held by the program around the slots (ext).

\* Threads inside a clone call: each will need one slot, and for Box one address.
InClone == {t \in Threads : pc[t] \in {"clone_load", "clone_dup"}}
FreeSlots == MaxSlot - nslots - Cardinality(InClone)
FreeAddrs == MaxAddr - (next - 1) - (IF kind = "Box" THEN Cardinality(InClone) ELSE 0)

\* drop(owner) / drop(from_raw(a)): Box frees the allocation and destroys the
\* value; Arc decrements the strong count and destroys the value when it
\* reaches zero.  Releasing an owner of a freed allocation destroys again.
\* Mutant: a release that leaves the strong count alone
ReleaseStrongNoDec(a) == strong[a]

ReleaseStrong(a) ==
    IF strong[a] > 0 THEN strong[a] - 1 ELSE 0

\* Mutant: every release destroys the value, shared or not
ReleaseDropsAlways(a) == drops[a] + 1

ReleaseDrops(a) ==
    IF strong[a] <= 1 THEN drops[a] + 1 ELSE drops[a]

\* The heap after releasing one owner of address a.
Release(a) ==
    /\ strong' = [strong EXCEPT ![a] = ReleaseStrong(a)]
    /\ drops' = [drops EXCEPT ![a] = ReleaseDrops(a)]
    /\ released' = [released EXCEPT ![a] = @ + 1]

\* Box::new(..) / Arc::new(..): a fresh allocation with one owner.
NewOwner ==
    /\ FreeAddrs >= 1
    /\ val' = [val EXCEPT ![next] = next]
    /\ strong' = [strong EXCEPT ![next] = 1]
    /\ ext' = [ext EXCEPT ![next] = 1]
    /\ created' = [created EXCEPT ![next] = 1]
    /\ next' = next + 1
    /\ UNCHANGED <<kind, slotVars, drops, released, thrVars, histVars>>

\* arc.clone() on an owner held outside the slots: one more owner.
CloneOwner(a) ==
    /\ kind = "Arc"
    /\ ext[a] >= 1
    /\ created[a] < MaxOwners
    /\ strong' = [strong EXCEPT ![a] = @ + 1]
    /\ ext' = [ext EXCEPT ![a] = @ + 1]
    /\ created' = [created EXCEPT ![a] = @ + 1]
    /\ UNCHANGED <<kind, slotVars, next, val, drops, released, thrVars, histVars>>

\* drop(owner) of an owner held outside the slots.
DropOwner(a) ==
    /\ ext[a] >= 1
    /\ ext' = [ext EXCEPT ![a] = @ - 1]
    /\ Release(a)
    /\ UNCHANGED <<kind, slotVars, next, val, created, thrVars, histVars>>

\* Whether a load with ordering `load` synchronises with the store (of
\* ordering `store`) it reads from.  "Init" is the store of construction,
\* ordered before every use of the slot by handing the slot over.
SyncsWith(store, load) ==
    \/ store = "Init"
    \/ store = "Release" /\ load = "Acquire"

\* What a read of the contents of address a by thread t may return.
ReadOutcomes(t, a) ==
    IF sync[t] /\ strong[a] > 0 /\ drops[a] = 0
    THEN {val[a]}
    ELSE {val[a], Garbage}

----------------------------------------------------------------------------
\* Construction.

\* OptionBox::new() / OptionArc::new()
New ==
    /\ FreeSlots >= 1
    /\ nslots' = nslots + 1
    /\ slotState' = [slotState EXCEPT ![nslots + 1] = "live"]
    /\ ptr' = [ptr EXCEPT ![nslots + 1] = Null]
    /\ ord' = [ord EXCEPT ![nslots + 1] = "Init"]
    /\ UNCHANGED <<kind, heapVars, thrVars, histVars>>

\* Mutant: from ignores its argument and builds an Empty slot
FromRawNull(o) == Null

\* The raw address From::from computes: into_raw of Some's owner, null for None.
FromRaw(o) == o

\* From<Option<Box<T>>>::from / From<Option<Arc<T>>>::from; o is Null for None.
From(o) ==
    /\ FreeSlots >= 1
    /\ o # Null => ext[o] >= 1
    /\ nslots' = nslots + 1
    /\ slotState' = [slotState EXCEPT ![nslots + 1] = "live"]
    /\ ptr' = [ptr EXCEPT ![nslots + 1] = FromRaw(o)]
    /\ ord' = [ord EXCEPT ![nslots + 1] = "Init"]
    /\ ext' = IF o = Null THEN ext ELSE [ext EXCEPT ![o] = @ - 1]
    /\ initial' = [initial EXCEPT ![nslots + 1] = FromRaw(o)]
    /\ installed' = [installed EXCEPT ![nslots + 1] = FromRaw(o)]
    /\ UNCHANGED <<kind, next, val, strong, drops, created, released, thrVars, setOk, ret, torn, origin>>

----------------------------------------------------------------------------
\* set

\* set(&self, v), first line: let raw = into_raw(v).  The call takes the
\* owner v (an owner held outside the slots) and borrows the slot.
SetCall(t, s, a) ==
    /\ pc[t] = "idle"
    /\ slotState[s] = "live"
    /\ ext[a] >= 1
    /\ ext' = [ext EXCEPT ![a] = @ - 1]
    /\ pc' = [pc EXCEPT ![t] = "set_cas"]
    /\ tslot' = [tslot EXCEPT ![t] = s]
    /\ traw' = [traw EXCEPT ![t] = a]
    /\ UNCHANGED <<kind, slotVars, next, val, strong, drops, created, released>>
    /\ UNCHANGED <<sync, err, tfreed, histVars>>

\* Mutant: a swap, which stores whatever the current value is
CasSucceedsAlways(cur) == TRUE

\* compare_exchange(null_mut(), new, ..): whether it succeeds on the current value
CasSucceeds(cur) == cur = Null

\* The success ordering of the compare_exchange in set
SetSuccessOrdering == "Release"

\* Mutant: a plain store instead of the compare_exchange
SetCasStore(t) ==
    /\ pc[t] = "set_cas"
    /\ ptr' = [ptr EXCEPT ![tslot[t]] = traw[t]]
    /\ ord' = [ord EXCEPT ![tslot[t]] = SetSuccessOrdering]
    /\ pc' = [pc EXCEPT ![t] = "idle"]
    /\ tslot' = [tslot EXCEPT ![t] = 0]
    /\ traw' = [traw EXCEPT ![t] = Null]
    /\ installed' = [installed EXCEPT ![tslot[t]] = IF @ = Null THEN traw[t] ELSE @]
    /\ setOk' = [setOk EXCEPT ![tslot[t]] = @ + 1]
    /\ UNCHANGED <<kind, nslots, slotState, heapVars, sync, err, tfreed, initial, ret, torn, origin>>

\* Mutant: a compare-and-swap loop, which tries again until the slot is null
SetCasRetry(t) ==
    /\ pc[t] = "set_cas"
    /\ LET s == tslot[t] IN
       IF CasSucceeds(ptr[s])
       THEN /\ ptr' = [ptr EXCEPT ![s] = traw[t]]
            /\ ord' = [ord EXCEPT ![s] = SetSuccessOrdering]
            /\ pc' = [pc EXCEPT ![t] = "idle"]
            /\ tslot' = [tslot EXCEPT ![t] = 0]
            /\ traw' = [traw EXCEPT ![t] = Null]
            /\ installed' = [installed EXCEPT ![s] = IF @ = Null THEN traw[t] ELSE @]
            /\ setOk' = [setOk EXCEPT ![s] = @ + 1]
       ELSE UNCHANGED <<ptr, ord, pc, tslot, traw, installed, setOk>>
    /\ UNCHANGED <<kind, nslots, slotState, heapVars, sync, err, tfreed, initial, ret, torn, origin>>

\* self.ptr.compare_exchange(null_mut(), raw, Release, Relaxed); Ok returns
SetCas(t) ==
    /\ pc[t] = "set_cas"
    /\ LET s == tslot[t] IN
       IF CasSucceeds(ptr[s])
       THEN /\ ptr' = [ptr EXCEPT ![s] = traw[t]]
            /\ ord' = [ord EXCEPT ![s] = SetSuccessOrdering]
            /\ pc' = [pc EXCEPT ![t] = "idle"]
            /\ tslot' = [tslot EXCEPT ![t] = 0]
            /\ traw' = [traw EXCEPT ![t] = Null]
            /\ installed' = [installed EXCEPT ![s] = IF @ = Null THEN traw[t] ELSE @]
            /\ setOk' = [setOk EXCEPT ![s] = @ + 1]
       ELSE /\ pc' = [pc EXCEPT ![t] = "set_drop"]
            /\ UNCHANGED <<ptr, ord, tslot, traw, installed, setOk>>
    /\ UNCHANGED <<kind, nslots, slotState, heapVars, sync, err, tfreed, initial, ret, torn, origin>>

\* Mutant: the failure path forgets to release the argument
SetFailNoDrop(t) ==
    /\ pc[t] = "set_drop"
    /\ pc' = [pc EXCEPT ![t] = "set_panic"]
    /\ UNCHANGED <<kind, slotVars, heapVars, tslot, traw, sync, err, tfreed, histVars>>

\* Mutant: the failure path releases the slot's current address, not raw
SetFailDropCurrent(t) ==
    /\ pc[t] = "set_drop"
    /\ Release(ptr[tslot[t]])
    /\ tfreed' = [tfreed EXCEPT ![t] = @ + 1]
    /\ pc' = [pc EXCEPT ![t] = "set_panic"]
    /\ UNCHANGED <<kind, slotVars, next, val, ext, created, tslot, traw, sync, err, histVars>>

\* drop(unsafe { from_raw(raw) }) on the failure path
SetFailDrop(t) ==
    /\ pc[t] = "set_drop"
    /\ Release(traw[t])
    /\ tfreed' = [tfreed EXCEPT ![t] = @ + 1]
    /\ pc' = [pc EXCEPT ![t] = "set_panic"]
    /\ UNCHANGED <<kind, slotVars, next, val, ext, created, tslot, traw, sync, err, histVars>>

\* Mutant: the failure path returns normally instead of panicking
SetPanicReturns(t) ==
    /\ pc[t] = "set_panic"
    /\ pc' = [pc EXCEPT ![t] = "idle"]
    /\ tslot' = [tslot EXCEPT ![t] = 0]
    /\ traw' = [traw EXCEPT ![t] = Null]
    /\ tfreed' = [tfreed EXCEPT ![t] = 0]
    /\ UNCHANGED <<kind, slotVars, heapVars, sync, err, histVars>>

\* panic!("... has already been set"): the thread unwinds, the borrow ends
SetPanic(t) ==
    /\ pc[t] = "set_panic"
    /\ pc' = [pc EXCEPT ![t] = "panicked"]
    /\ err' = [err EXCEPT ![t] = "already_set"]
    /\ traw' = [traw EXCEPT ![t] = Null]
    /\ tfreed' = [tfreed EXCEPT ![t] = 0]
    /\ UNCHANGED <<kind, slotVars, heapVars, tslot, sync, histVars>>

----------------------------------------------------------------------------
\* deref

\* <OptionBox<T> as Deref>::deref(&self) is called: the slot is borrowed.
DerefCall(t, s) ==
    /\ pc[t] = "idle"
    /\ slotState[s] = "live"
    /\ pc' = [pc EXCEPT ![t] = "deref_load"]
    /\ tslot' = [tslot EXCEPT ![t] = s]
    /\ UNCHANGED <<kind, slotVars, heapVars, traw, sync, err, tfreed, histVars>>

\* Mutant: a Relaxed load
DerefLoadRelaxed == "Relaxed"

\* The ordering of the load in deref
DerefLoadOrdering == "Acquire"

\* Mutant: no assertion
DerefAssertNone(raw) == TRUE

\* assert!(!raw.is_null(), ..): whether the assertion passes
DerefAssert(raw) == raw # Null

\* let raw = self.ptr.load(Acquire); assert!(!raw.is_null(), ..); unsafe { &*raw }
DerefLoad(t) ==
    /\ pc[t] = "deref_load"
    /\ LET s == tslot[t] IN
       IF DerefAssert(ptr[s])
       THEN /\ pc' = [pc EXCEPT ![t] = "deref_ref"]
            /\ traw' = [traw EXCEPT ![t] = ptr[s]]
            /\ sync' = [sync EXCEPT ![t] = SyncsWith(ord[s], DerefLoadOrdering)]
            /\ err' = err
       ELSE /\ pc' = [pc EXCEPT ![t] = "panicked"]
            /\ err' = [err EXCEPT ![t] = "unset"]
            /\ UNCHANGED <<traw, sync>>
    /\ UNCHANGED <<kind, slotVars, heapVars, tslot, tfreed, histVars>>

\* The caller reads the value through the returned &T; the borrow ends.
DerefRead(t) ==
    /\ pc[t] = "deref_ref"
    /\ \E v \in ReadOutcomes(t, traw[t]) : torn' = (torn \/ v = Garbage)
    /\ pc' = [pc EXCEPT ![t] = "idle"]
    /\ tslot' = [tslot EXCEPT ![t] = 0]
    /\ traw' = [traw EXCEPT ![t] = Null]
    /\ sync' = [sync EXCEPT ![t] = FALSE]
    /\ UNCHANGED <<kind, slotVars, heapVars, err, tfreed, initial, installed, setOk, ret, origin>>

\* The caller writes the value through the returned &T (interior mutability:
\* b2.value.set(16)); the borrow ends.  Through a reference that is undefined
\* behaviour to use, the write is a torn access.
DerefWrite(t, v) ==
    /\ pc[t] = "deref_ref"
    /\ v # val[traw[t]]
    /\ val' = [val EXCEPT ![traw[t]] = v]
    /\ torn' = (torn \/ Garbage \in ReadOutcomes(t, traw[t]))
    /\ pc' = [pc EXCEPT ![t] = "idle"]
    /\ tslot' = [tslot EXCEPT ![t] = 0]
    /\ traw' = [traw EXCEPT ![t] = Null]
    /\ sync' = [sync EXCEPT ![t] = FALSE]
    /\ UNCHANGED <<kind, slotVars, next, strong, ext, drops, created, released>>
    /\ UNCHANGED <<err, tfreed, initial, installed, setOk, ret, origin>>

----------------------------------------------------------------------------
\* clone

\* Clone::clone(&self) is called: the slot is borrowed.
CloneCall(t, s) ==
    /\ pc[t] = "idle"
    /\ slotState[s] = "live"
    /\ FreeSlots >= 1
    /\ kind = "Box" => FreeAddrs >= 1
    /\ pc' = [pc EXCEPT ![t] = "clone_load"]
    /\ tslot' = [tslot EXCEPT ![t] = s]
    /\ UNCHANGED <<kind, slotVars, heapVars, traw, sync, err, tfreed, histVars>>

\* Mutant: a Relaxed load in clone
CloneLoadRelaxed == "Relaxed"

\* The ordering of the load in clone
CloneLoadOrdering == "Acquire"

\* let raw = self.ptr.load(Acquire); the null branch returns an empty slot.
CloneLoad(t) ==
    /\ pc[t] = "clone_load"
    /\ LET s == tslot[t] IN
       IF ptr[s] = Null
       THEN /\ pc' = [pc EXCEPT ![t] = "idle"]
            /\ tslot' = [tslot EXCEPT ![t] = 0]
            /\ nslots' = nslots + 1
            /\ slotState' = [slotState EXCEPT ![nslots + 1] = "live"]
            /\ ptr' = [ptr EXCEPT ![nslots + 1] = Null]
            /\ ord' = [ord EXCEPT ![nslots + 1] = "Init"]
            /\ origin' = [origin EXCEPT ![nslots + 1] = s]
            /\ UNCHANGED <<traw, sync>>
       ELSE /\ pc' = [pc EXCEPT ![t] = "clone_dup"]
            /\ traw' = [traw EXCEPT ![t] = ptr[s]]
            /\ sync' = [sync EXCEPT ![t] = SyncsWith(ord[s], CloneLoadOrdering)]
            /\ UNCHANGED <<nslots, slotState, ptr, ord, tslot, origin>>
    /\ UNCHANGED <<kind, heapVars, err, tfreed, initial, installed, setOk, ret, torn>>

\* Mutant: no ManuallyDrop around the borrowed owner
CloneReleasesBorrowYes == TRUE

\* ManuallyDrop::new(from_raw(raw)): whether the owner made for the borrow is
\* released when the block ends
CloneReleasesBorrow == FALSE

\* The heap after the borrowed owner of a goes out of scope in clone; st and
\* dr are the strong counts and destructions after the duplication.
CloneBorrowEnd(a, st, dr) ==
    IF CloneReleasesBorrow
    THEN /\ strong' = [st EXCEPT ![a] = IF @ > 0 THEN @ - 1 ELSE @]
         /\ drops' = [dr EXCEPT ![a] = IF st[a] <= 1 THEN @ + 1 ELSE @]
         /\ released' = [released EXCEPT ![a] = @ + 1]
    ELSE /\ strong' = st
         /\ drops' = dr
         /\ released' = released

\* Mutant: clone returns an Empty slot whatever it loaded
CloneResultEmpty(t, new_raw) ==
    /\ nslots' = nslots + 1
    /\ slotState' = [slotState EXCEPT ![nslots + 1] = "live"]
    /\ ptr' = [ptr EXCEPT ![nslots + 1] = Null]
    /\ ord' = [ord EXCEPT ![nslots + 1] = "Init"]
    /\ initial' = [initial EXCEPT ![nslots + 1] = Null]
    /\ installed' = [installed EXCEPT ![nslots + 1] = Null]
    /\ origin' = [origin EXCEPT ![nslots + 1] = tslot[t]]
    /\ pc' = [pc EXCEPT ![t] = "idle"]
    /\ tslot' = [tslot EXCEPT ![t] = 0]
    /\ traw' = [traw EXCEPT ![t] = Null]
    /\ sync' = [sync EXCEPT ![t] = FALSE]

\* The slot clone returns, holding new_raw
CloneResult(t, new_raw) ==
    /\ nslots' = nslots + 1
    /\ slotState' = [slotState EXCEPT ![nslots + 1] = "live"]
    /\ ptr' = [ptr EXCEPT ![nslots + 1] = new_raw]
    /\ ord' = [ord EXCEPT ![nslots + 1] = "Init"]
    /\ initial' = [initial EXCEPT ![nslots + 1] = new_raw]
    /\ installed' = [installed EXCEPT ![nslots + 1] = new_raw]
    /\ origin' = [origin EXCEPT ![nslots + 1] = tslot[t]]
    /\ pc' = [pc EXCEPT ![t] = "idle"]
    /\ tslot' = [tslot EXCEPT ![t] = 0]
    /\ traw' = [traw EXCEPT ![t] = Null]
    /\ sync' = [sync EXCEPT ![t] = FALSE]

\* Mutant: the clone of an OptionBox copies the address, not the value
CloneDupBoxShallow(t) ==
    /\ pc[t] = "clone_dup"
    /\ kind = "Box"
    /\ created' = [created EXCEPT ![traw[t]] = @ + 1]
    /\ CloneBorrowEnd(traw[t], strong, drops)
    /\ CloneResult(t, traw[t])
    /\ UNCHANGED <<kind, next, val, ext, err, tfreed, setOk, ret, torn>>

\* The non-null branch for OptionBox: Box::into_raw((*b).clone()), a new
\* allocation holding a copy of the contents read through raw.
CloneDupBox(t) ==
    /\ pc[t] = "clone_dup"
    /\ kind = "Box"
    /\ \E v \in ReadOutcomes(t, traw[t]) :
          /\ val' = [val EXCEPT ![next] = v]
          /\ torn' = (torn \/ v = Garbage)
    /\ next' = next + 1
    /\ created' = [created EXCEPT ![next] = 1]
    /\ CloneBorrowEnd(traw[t], [strong EXCEPT ![next] = 1], drops)
    /\ CloneResult(t, next)
    /\ UNCHANGED <<kind, ext, err, tfreed, setOk, ret>>

\* Mutant: the clone of an OptionArc copies the address without a new owner
CloneDupArcNoInc(t) ==
    /\ pc[t] = "clone_dup"
    /\ kind = "Arc"
    /\ created' = [created EXCEPT ![traw[t]] = @ + 1]
    /\ CloneBorrowEnd(traw[t], strong, drops)
    /\ CloneResult(t, traw[t])
    /\ UNCHANGED <<kind, next, val, ext, err, tfreed, setOk, ret, torn>>

\* The non-null branch for OptionArc: Arc::into_raw((*arc).clone()), one more
\* owner of the same allocation.
CloneDupArc(t) ==
    /\ pc[t] = "clone_dup"
    /\ kind = "Arc"
    /\ created' = [created EXCEPT ![traw[t]] = @ + 1]
    /\ CloneBorrowEnd(traw[t], [strong EXCEPT ![traw[t]] = @ + 1], drops)
    /\ CloneResult(t, traw[t])
    /\ UNCHANGED <<kind, next, val, ext, err, tfreed, setOk, ret, torn>>

----------------------------------------------------------------------------
\* drop and into_inner: &mut self and self, so no call borrows the slot.

Borrowed(s) ==
    \E t \in Threads :
        /\ tslot[t] = s
        /\ pc[t] \in {"set_cas", "set_drop", "set_panic", "deref_load",
                      "deref_ref", "clone_load", "clone_dup"}

\* The slot is gone: of its record only ptr is kept, the `raw` that drop and
\* into_inner read from it (and the address it was constructed with).
Gone(s) ==
    /\ ord' = [ord EXCEPT ![s] = "Init"]
    /\ initial' = initial
    /\ installed' = [installed EXCEPT ![s] = Null]
    /\ setOk' = [setOk EXCEPT ![s] = 0]
    /\ origin' = [origin EXCEPT ![s] = 0]

\* Mutant: a destructor that releases nothing
DropReleasesNever(raw) == FALSE

\* if !raw.is_null() { drop(from_raw(raw)) }: whether Drop releases raw
DropReleases(raw) == raw # Null

\* <OptionBox<T> as Drop>::drop(&mut self)
DropSlot(s) ==
    /\ slotState[s] = "live"
    /\ ~Borrowed(s)
    /\ slotState' = [slotState EXCEPT ![s] = "dropped"]
    /\ IF DropReleases(ptr[s])
       THEN Release(ptr[s])
       ELSE UNCHANGED <<strong, drops, released>>
    /\ Gone(s)
    /\ UNCHANGED <<kind, nslots, ptr, next, val, ext, created, thrVars, ret, torn>>

\* Mutant: no mem::forget, the destructor of the consumed slot runs
IntoInnerNoForget == FALSE

\* std::mem::forget(v): whether the consumed slot's destructor is kept from running
IntoInnerForgets == TRUE

\* Mutant: no null check
IntoInnerResultNoCheck(raw) == {raw}

\* if raw.is_null() { None } else { Some(from_raw(raw)) }: {} is None, {a} is Some
IntoInnerResult(raw) == IF raw = Null THEN {} ELSE {raw}

\* OptionBox::into_inner(v) / OptionArc::into_inner(v): the owner returned is
\* held outside the slots from then on
IntoInner(s) ==
    /\ slotState[s] = "live"
    /\ ~Borrowed(s)
    /\ LET raw == ptr[s]
           res == IntoInnerResult(raw) IN
       /\ ret' = [ret EXCEPT ![s] = res]
       /\ ext' = [a \in Addrs |-> IF a \in res THEN ext[a] + 1 ELSE ext[a]]
       /\ IF IntoInnerForgets
          THEN /\ slotState' = [slotState EXCEPT ![s] = "consumed"]
               /\ UNCHANGED <<strong, drops, released>>
          ELSE /\ slotState' = [slotState EXCEPT ![s] = "dropped"]
               /\ IF DropReleases(raw)
                  THEN Release(raw)
                  ELSE UNCHANGED <<strong, drops, released>>
    /\ Gone(s)
    /\ UNCHANGED <<kind, nslots, ptr, next, val, created, thrVars, torn>>

----------------------------------------------------------------------------
Init ==
    /\ kind \in {"Box", "Arc"}
    /\ nslots = 0
    /\ slotState = [s \in Slots |-> "unborn"]
    /\ ptr = [s \in Slots |-> Null]
    /\ ord = [s \in Slots |-> "Init"]
    /\ next = 1
    /\ val = [a \in Addrs |-> 0]
    /\ strong = [a \in Addrs |-> 0]
    /\ ext = [a \in Addrs |-> 0]
    /\ drops = [a \in Addrs |-> 0]
    /\ created = [a \in Addrs |-> 0]
    /\ released = [a \in Addrs |-> 0]
    /\ pc = [t \in Threads |-> "idle"]
    /\ tslot = [t \in Threads |-> 0]
    /\ traw = [t \in Threads |-> Null]
    /\ sync = [t \in Threads |-> FALSE]
    /\ err = [t \in Threads |-> "none"]
    /\ tfreed = [t \in Threads |-> 0]
    /\ initial = [s \in Slots |-> Null]
    /\ installed = [s \in Slots |-> Null]
    /\ setOk = [s \in Slots |-> 0]
    /\ ret = [s \in Slots |-> {}]
    /\ torn = FALSE
    /\ origin = [s \in Slots |-> 0]

Next ==
    \/ NewOwner
    \/ \E a \in Addrs : CloneOwner(a)
    \/ \E a \in Addrs : DropOwner(a)
    \/ New
    \/ \E o \in {Null} \cup Addrs : From(o)
    \/ \E t \in Threads, s \in Slots, a \in Addrs : SetCall(t, s, a)
    \/ \E t \in Threads : SetCas(t)
    \/ \E t \in Threads : SetFailDrop(t)
    \/ \E t \in Threads : SetPanic(t)
    \/ \E t \in Threads, s \in Slots : DerefCall(t, s)
    \/ \E t \in Threads : DerefLoad(t)
    \/ \E t \in Threads : DerefRead(t)
    \/ \E t \in Threads, v \in Addrs : DerefWrite(t, v)
    \/ \E t \in Threads, s \in Slots : CloneCall(t, s)
    \/ \E t \in Threads : CloneLoad(t)
    \/ \E t \in Threads : CloneDupBox(t)
    \/ \E t \in Threads : CloneDupArc(t)
    \/ \E s \in Slots : DropSlot(s)
    \/ \E s \in Slots : IntoInner(s)

Spec == Init /\ [][Next]_vars

\* The steps of thread t inside a call of set, deref or clone.
ThreadStep(t) ==
    \/ SetCas(t)
    \/ SetFailDrop(t)
    \/ SetPanic(t)
    \/ DerefLoad(t)
    \/ DerefRead(t)
    \/ \E v \in Addrs : DerefWrite(t, v)
    \/ CloneLoad(t)
    \/ CloneDupBox(t)
    \/ CloneDupArc(t)

\* Every thread that is inside a call is scheduled again: the calls take no
\* lock and wait for nothing, so a thread inside one can always run.
Fairness == \A t \in Threads : WF_vars(ThreadStep(t))

SpecLive == Init /\ [][Next]_vars /\ Fairness

----------------------------------------------------------------------------
\* Vocabulary of the properties.

Live(s) == slotState[s] = "live"

\* Set calls on slot s that ended in the already-set panic.
SetErr(s) ==
    Cardinality({t \in Threads :
        pc[t] = "panicked" /\ err[t] = "already_set" /\ tslot[t] = s})

\* Threads whose set call on s lost its compare-and-swap and has not panicked yet.
Losing(t) == pc[t] \in {"set_drop", "set_panic"}

\* Owners of address a that exist: outside the slots, in a live slot, or in
\* raw form in a set call that has not installed or released it yet.
SlotOwners(a) == Cardinality({s \in Slots : Live(s) /\ ptr[s] = a})
RawOwners(a) ==
    Cardinality({t \in Threads : pc[t] \in {"set_cas", "set_drop"} /\ traw[t] = a})
LiveOwners(a) == ext[a] + SlotOwners(a) + RawOwners(a)

\* The value at address a exists: allocated and not destroyed.
Alive(a) == a \in Addrs /\ val[a] # 0 /\ strong[a] >= 1 /\ drops[a] = 0

\* Every slot and every owner is gone.
Quiescent ==
    /\ \A s \in Slots : ~Live(s)
    /\ \A a \in Addrs : LiveOwners(a) = 0

----------------------------------------------------------------------------
\* C1: on a slot constructed empty, of any number of set calls (concurrent
\* or not) exactly one succeeds and installs its address; every other
\* call loses its compare-and-swap and ends in the already-set panic.  So:
\* never two successes, and as soon as one call has lost or panicked, one call
\* has succeeded.
C1_ExactlyOneSetWins ==
    \A s \in Slots :
        (Live(s) /\ initial[s] = Null) =>
            /\ setOk[s] <= 1
            /\ setOk[s] = 1 <=> ptr[s] # Null
            /\ setOk[s] = 1 => ptr[s] = installed[s]
            /\ (SetErr(s) >= 1 \/ \E t \in Threads : Losing(t) /\ tslot[t] = s)
                   => setOk[s] = 1
            /\ \A t \in Threads :
                   (pc[t] = "panicked" /\ tslot[t] = s) => err[t] \in {"already_set", "unset"}

\* One call won and every other thread's call panicked.
C1_Witness ==
    \E s \in Slots :
        /\ Live(s) /\ initial[s] = Null
        /\ setOk[s] = 1
        /\ SetErr(s) = NThreads - 1

----------------------------------------------------------------------------
\* C2 as stated: a losing set call releases its argument exactly once before
\* the panic, the loser's address is never the address stored in the slot,
\* and the address in the slot (the winner's) is not released.
C2_Original ==
    \A t \in Threads :
        /\ pc[t] = "set_drop" => tfreed[t] = 0
        /\ pc[t] = "set_panic" => tfreed[t] = 1
        /\ Losing(t) =>
              /\ ptr[tslot[t]] # traw[t]
              /\ Alive(ptr[tslot[t]])

\* C2, amended: a losing set call releases its argument exactly once before
\* the panic (not at all before the release step, and a Box argument is
\* destroyed by it); the losing call stores nothing, so the slot holds the
\* address the winner installed, which equals the loser's address only when
\* both are Arc owners of one allocation; the winner's value is not released.
C2_LoserReleasesOnce ==
    \A t \in Threads :
        /\ pc[t] = "set_drop" => (tfreed[t] = 0 /\ Alive(traw[t]))
        /\ pc[t] = "set_panic" =>
              /\ tfreed[t] = 1
              /\ drops[traw[t]] <= 1
              /\ kind = "Box" => (drops[traw[t]] = 1 /\ strong[traw[t]] = 0)
        /\ Losing(t) =>
              /\ ptr[tslot[t]] # Null
              /\ ptr[tslot[t]] = installed[tslot[t]]
              /\ ptr[tslot[t]] = traw[t] => kind = "Arc"
              /\ Alive(ptr[tslot[t]])

\* A loser that has released its argument, destroying it, and not panicked yet.
C2_Witness ==
    \E t \in Threads :
        /\ pc[t] = "set_panic"
        /\ tfreed[t] = 1
        /\ drops[traw[t]] = 1
        /\ Alive(ptr[tslot[t]])

----------------------------------------------------------------------------
\* C3: while a slot lives its address changes at most once, from null to
\* non-null; a non-null address is never overwritten and never reset.
C3_WriteOnce ==
    [][\A s \in Slots :
          (Live(s) /\ ptr'[s] # ptr[s]) => (ptr[s] = Null /\ ptr'[s] # Null)]_vars

\* A slot that was set by set while a deref and a clone are in progress on it.
C3_Witness ==
    \E s \in Slots :
        /\ Live(s) /\ setOk[s] = 1 /\ ptr[s] # Null
        /\ \E t \in Threads : pc[t] \in {"deref_ref", "clone_dup"} /\ tslot[t] = s

----------------------------------------------------------------------------
\* C4 as stated: once every slot and owner is gone, each value a slot held
\* has been destroyed as many times as owners were created for it.
C4_Original ==
    \A a \in Addrs :
        (Quiescent /\ \E s \in Slots : slotState[s] = "dropped" /\ ptr[s] = a)
            => drops[a] = created[a]

\* C4, amended: for each value the number of owner releases equals the number
\* of owners that no longer exist (so, once all are gone, the number of owners
\* created), and the value itself is destroyed exactly once, when its last
\* owner is released: never twice, never while an owner (a live slot among
\* them) holds its address, and always once every slot and owner is gone.
C4_NoLeakNoDoubleFree ==
    \A a \in Addrs :
        /\ drops[a] <= 1
        /\ strong[a] = LiveOwners(a)
        /\ released[a] = created[a] - LiveOwners(a)
        /\ drops[a] = 1 <=> (created[a] >= 1 /\ LiveOwners(a) = 0)
        /\ (\E s \in Slots : Live(s) /\ ptr[s] = a) => Alive(a)
        /\ Quiescent => (released[a] = created[a] /\ (created[a] >= 1 => drops[a] = 1))
        /\ kind = "Box" => created[a] <= 1

\* Everything is gone after a slot was cloned and a value had two owners.
C4_Witness ==
    /\ Quiescent
    /\ nslots = MaxSlot
    /\ \E a \in Addrs : created[a] >= 2 /\ released[a] = created[a] /\ drops[a] = 1
----------------------------------------------------------------------------
\* C5: a deref racing with set calls either panics on null or holds the
\* address the winning set installed, through a load that synchronised with
\* the winner's store, so that the value it reads is the one constructed
\* before the set, alive and whole; no torn value is ever read.
C5_DerefSeesPublishedValue ==
    /\ ~torn
    /\ \A t \in Threads :
          /\ pc[t] = "deref_ref" =>
                /\ Live(tslot[t])
                /\ traw[t] # Null
                /\ traw[t] = ptr[tslot[t]]
                /\ traw[t] = installed[tslot[t]]
                /\ sync[t]
                /\ Alive(traw[t])
                /\ ReadOutcomes(t, traw[t]) = {val[traw[t]]}
                /\ val[traw[t]] \in Addrs
          /\ (pc[t] = "panicked" /\ err[t] = "unset") => traw[t] = Null

\* A deref holds the reference while another thread's set has just lost.
C5_Witness ==
    \E t, u \in Threads :
        /\ pc[t] = "deref_ref"
        /\ Losing(u)
        /\ tslot[u] = tslot[t]
        /\ setOk[tslot[t]] = 1

----------------------------------------------------------------------------
\* C6: the load of deref on an Empty slot ends in the unset panic with no
\* reference; on a Set slot it yields a reference to the slot's address; no
\* step of deref changes any slot's address.
C6_DerefUnsetPanics ==
    [][\A t \in Threads :
          /\ (pc[t] = "deref_load" /\ pc'[t] # "deref_load") =>
                /\ ptr' = ptr
                /\ IF ptr[tslot[t]] = Null
                   THEN pc'[t] = "panicked" /\ err'[t] = "unset" /\ traw'[t] = Null
                   ELSE pc'[t] = "deref_ref" /\ err'[t] = "none"
                        /\ traw'[t] = ptr[tslot[t]]
          /\ (pc[t] = "deref_ref" /\ pc'[t] # "deref_ref") => ptr' = ptr]_vars

\* A thread that panicked in deref on a slot that is still Empty.
C6_Witness ==
    \E t \in Threads :
        /\ pc[t] = "panicked" /\ err[t] = "unset"
        /\ Live(tslot[t]) /\ ptr[tslot[t]] = Null

----------------------------------------------------------------------------
\* C7: when a set(W) is about to panic on a slot that set(V) succeeded on, the
\* slot still holds V's address, V is alive (readable, not released), and
\* the argument W has been released exactly once: destroyed exactly once when
\* the argument was W's only owner, and never twice.
C7_SecondSetLeavesFirst ==
    \A t \in Threads :
        (pc[t] = "set_panic" /\ setOk[tslot[t]] = 1) =>
            /\ Live(tslot[t])
            /\ ptr[tslot[t]] # Null
            /\ ptr[tslot[t]] = installed[tslot[t]]
            /\ Alive(ptr[tslot[t]])
            /\ tfreed[t] = 1
            /\ drops[traw[t]] <= 1
            /\ created[traw[t]] = 1 => (drops[traw[t]] = 1 /\ ptr[tslot[t]] # traw[t])

\* set(V) succeeded, set(W) released W, its only owner, and is about to panic.
C7_Witness ==
    \E t \in Threads :
        /\ pc[t] = "set_panic"
        /\ setOk[tslot[t]] = 1
        /\ created[traw[t]] = 1
        /\ drops[traw[t]] = 1
        /\ Alive(ptr[tslot[t]])

----------------------------------------------------------------------------
\* C8: the step that consumes a Set slot and hands an owner out (into_inner)
\* returns the owner of the address the slot held, the one that was installed,
\* and releases nothing; the slot ends consumed, not dropped, and stays so;
\* an owner held outside the slots keeps its value alive.
C8_IntoInnerMovesOwnerOut ==
    /\ [](\A a \in Addrs : ext[a] >= 1 => Alive(a))
    /\ [][\A s \in Slots :
             /\ (Live(s) /\ slotState'[s] # "live" /\ ptr[s] # Null /\ ext' # ext) =>
                   /\ slotState'[s] = "consumed"
                   /\ ret'[s] = {ptr[s]}
                   /\ ptr[s] = installed[s]
                   /\ ext' = [ext EXCEPT ![ptr[s]] = @ + 1]
                   /\ strong' = strong /\ drops' = drops /\ released' = released
             /\ slotState[s] = "consumed" => slotState'[s] = "consumed"]_vars

\* A Set slot was consumed and the owner it returned still holds the value.
C8_Witness ==
    \E s \in Slots :
        /\ slotState[s] = "consumed"
        /\ ret[s] = {ptr[s]}
        /\ ptr[s] # Null
        /\ ext[ptr[s]] >= 1
        /\ SlotOwners(ptr[s]) = 0
        /\ strong[ptr[s]] = ext[ptr[s]]

----------------------------------------------------------------------------
\* C9: into_inner on an Empty slot returns None and changes nothing else:
\* no allocation, count, owner or thread is touched.
C9_IntoInnerEmpty ==
    [][\A s \in Slots :
          (Live(s) /\ slotState'[s] = "consumed" /\ ptr[s] = Null) =>
              /\ ret'[s] = {}
              /\ heapVars' = heapVars
              /\ thrVars' = thrVars
              /\ ptr' = ptr]_vars

\* An Empty slot was consumed and None came back.
C9_Witness ==
    \E s \in Slots : slotState[s] = "consumed" /\ ptr[s] = Null /\ ret[s] = {}

----------------------------------------------------------------------------
\* C10: dropping a live slot with a non-null address releases exactly one
\* owner of that address: the strong count falls by one and the value is
\* destroyed exactly when that was the last owner (always for a Box); dropping
\* an Empty slot releases nothing.  No other allocation is touched.
C10_DropReleasesOnce ==
    [][\A s \in Slots :
          (Live(s) /\ slotState'[s] = "dropped") =>
              /\ ext' = ext
              /\ IF ptr[s] # Null
                 THEN /\ strong[ptr[s]] >= 1
                      /\ strong' = [strong EXCEPT ![ptr[s]] = @ - 1]
                      /\ released' = [released EXCEPT ![ptr[s]] = @ + 1]
                      /\ drops' = [drops EXCEPT ![ptr[s]] =
                                      IF strong[ptr[s]] = 1 THEN 1 ELSE 0]
                      /\ kind = "Box" => drops'[ptr[s]] = 1
                 ELSE strong' = strong /\ drops' = drops /\ released' = released]_vars

\* A Set OptionArc slot was dropped and the value lives on in another owner.
C10_Witness ==
    \E s \in Slots :
        /\ slotState[s] = "dropped"
        /\ ptr[s] # Null
        /\ Alive(ptr[s])
        /\ released[ptr[s]] = 1

----------------------------------------------------------------------------
\* C11: OptionBox.  No two live slots hold the same address.  The step of
\* clone that builds the copy gives the new slot a fresh address, different
\* from the original's, whose contents equal the original's contents at that
\* moment, and leaves the original's address and contents alone.  A write
\* through one slot's view changes the contents of that slot's address only.
\* Dropping a Set slot destroys the value at its own address, exactly once, and
\* leaves the value of every other slot alive.
C11_BoxCloneIndependent ==
    /\ [](kind = "Box" =>
             \A s1, s2 \in Slots :
                 (s1 # s2 /\ Live(s1) /\ Live(s2) /\ ptr[s1] # Null) => ptr[s1] # ptr[s2])
    /\ [][kind = "Box" =>
             /\ \A s \in Slots :
                    (~Live(s) /\ Live(s)' /\ origin'[s] # 0 /\ ptr'[s] # Null) =>
                        LET o == origin'[s] IN
                        /\ Live(o) /\ ptr[o] # Null
                        /\ ptr'[s] # ptr[o]
                        /\ val[ptr'[s]] = 0
                        /\ val'[ptr'[s]] = val[ptr[o]]
                        /\ ptr'[o] = ptr[o]
                        /\ val'[ptr[o]] = val[ptr[o]]
                        /\ strong'[ptr[o]] >= 1 /\ drops'[ptr[o]] = 0
                        /\ drops' = drops
             /\ \A a \in Addrs :
                    (val[a] # 0 /\ val'[a] # val[a]) =>
                        \A b \in Addrs \ {a} : val'[b] = val[b]
             /\ \A s \in Slots :
                    (Live(s) /\ slotState'[s] = "dropped" /\ ptr[s] # Null) =>
                        /\ drops[ptr[s]] = 0
                        /\ drops' = [drops EXCEPT ![ptr[s]] = 1]
                        /\ \A s2 \in Slots \ {s} :
                               (Live(s2) /\ ptr[s2] # Null) => Alive(ptr[s2])']_vars

\* An OptionBox was cloned, the clone's contents were changed through the
\* clone, and the original was dropped: its copy is destroyed, the clone's lives.
C11_Witness ==
    /\ kind = "Box"
    /\ \E s1, s2 \in Slots :
          /\ origin[s2] = s1
          /\ slotState[s1] = "dropped" /\ ptr[s1] # Null /\ drops[ptr[s1]] = 1
          /\ Live(s2) /\ ptr[s2] # Null /\ ptr[s2] # ptr[s1]
          /\ Alive(ptr[s2])
          /\ val[ptr[s2]] # val[ptr[s1]]

----------------------------------------------------------------------------
\* C12: OptionArc.  The step of clone that builds the clone of a Set slot
\* gives the new slot the original's address, adds exactly one to the strong
\* count of that allocation, allocates nothing and copies no value, so both
\* slots view the same contents.  The strong count of an allocation is never
\* below the number of live slots holding it, and its value is destroyed only
\* once no slot holds it and no other owner of it exists.
C12_ArcCloneShares ==
    /\ [](kind = "Arc" =>
             \A a \in Addrs :
                 /\ strong[a] >= SlotOwners(a)
                 /\ drops[a] >= 1 => (SlotOwners(a) = 0 /\ ext[a] = 0 /\ LiveOwners(a) = 0))
    /\ [][kind = "Arc" =>
             \A s \in Slots :
                 (~Live(s) /\ Live(s)' /\ origin'[s] # 0 /\ ptr'[s] # Null) =>
                     LET o == origin'[s] IN
                     /\ Live(o) /\ ptr[o] # Null
                     /\ ptr'[s] = ptr[o]
                     /\ ptr'[o] = ptr[o]
                     /\ strong' = [strong EXCEPT ![ptr[o]] = @ + 1]
                     /\ strong[ptr[o]] >= 1
                     /\ val' = val /\ next' = next /\ drops' = drops]_vars

\* An OptionArc and its clone hold one allocation with a strong count of two
\* or more, whose contents were changed through one of them.
C12_Witness ==
    /\ kind = "Arc"
    /\ \E s1, s2 \in Slots :
          /\ origin[s2] = s1
          /\ Live(s1) /\ Live(s2)
          /\ ptr[s1] # Null /\ ptr[s2] = ptr[s1]
          /\ strong[ptr[s1]] >= 2
          /\ val[ptr[s1]] # ptr[s1]
          /\ Alive(ptr[s1])

----------------------------------------------------------------------------
\* C13: the clone of a Set slot is Set (constructed with an address, which it
\* keeps).  Dropping the original of a Set clone
\* leaves the clone live, its address and every value unchanged and its
\* storage unreleased.  While the original is gone, the clone's value is
\* alive and whole, a deref of the clone passes its assertion and holds the
\* clone's address, and what it reads is exactly the value stored there.
C13_CloneOutlivesOriginal ==
    /\ [](\A s2 \in Slots :
             (Live(s2) /\ origin[s2] # 0 /\ initial[s2] # Null /\ ~Live(origin[s2])) =>
                 /\ ptr[s2] = initial[s2]
                 /\ Alive(ptr[s2])
                 /\ val[ptr[s2]] \in Addrs
                 /\ kind = "Box" => ptr[s2] # ptr[origin[s2]]
                 /\ \A t \in Threads :
                        (pc[t] = "deref_ref" /\ tslot[t] = s2) =>
                            /\ traw[t] = ptr[s2]
                            /\ ReadOutcomes(t, traw[t]) = {val[ptr[s2]]})
    /\ [][/\ \A s \in Slots :
                (~Live(s) /\ Live(s)' /\ origin'[s] # 0) =>
                    (ptr[origin'[s]] # Null => ptr'[s] # Null)
          /\ \A s1, s2 \in Slots :
                (Live(s1) /\ slotState'[s1] = "dropped"
                     /\ Live(s2) /\ origin[s2] = s1 /\ initial[s2] # Null) =>
                    /\ Live(s2)'
                    /\ ptr'[s2] = ptr[s2]
                    /\ val' = val
                    /\ strong'[ptr[s2]] >= 1
                    /\ drops'[ptr[s2]] = 0
          /\ \A t \in Threads :
                (pc[t] = "deref_load" /\ pc'[t] # "deref_load"
                     /\ origin[tslot[t]] # 0 /\ initial[tslot[t]] # Null
                     /\ ~Live(origin[tslot[t]])) =>
                    /\ pc'[t] = "deref_ref"
                    /\ traw'[t] = ptr[tslot[t]]]_vars

\* A slot was set by set and cloned, the original was dropped, and a deref of
\* the clone holds a reference to the clone's value.
C13_Witness ==
    \E s1, s2 \in Slots, t \in Threads :
        /\ origin[s2] = s1
        /\ slotState[s1] = "dropped" /\ ptr[s1] # Null /\ initial[s1] = Null
        /\ Live(s2) /\ initial[s2] # Null /\ ptr[s2] = initial[s2]
        /\ pc[t] = "deref_ref" /\ tslot[t] = s2 /\ traw[t] = ptr[s2]
        /\ Alive(ptr[s2])

----------------------------------------------------------------------------
\* C14: construction by from.  from(Some(v)) yields a live slot holding v's
\* address, taking the owner v and releasing nothing; from(None) yields an
\* Empty slot; neither raises a panic nor moves a thread.  create() followed
\* by a set(v) has the same net effect: the call takes the owner v, the
\* compare-and-swap stores v's address and touches no allocation.  A slot's
\* behaviour does not depend on which construction filled it: whatever it was
\* constructed with, a Set slot holds the installed address of a live value
\* and every load of deref and clone synchronises with the store it reads.
C14_FromIsNewThenSet ==
    /\ [](\A s \in Slots :
             (Live(s) /\ ptr[s] # Null) =>
                 /\ ptr[s] = installed[s]
                 /\ initial[s] \in {Null, ptr[s]}
                 /\ Alive(ptr[s])
                 /\ SyncsWith(ord[s], DerefLoadOrdering)
                 /\ SyncsWith(ord[s], CloneLoadOrdering))
    /\ [][/\ \A s \in Slots :
                (~Live(s) /\ Live(s)' /\ origin'[s] = 0) =>
                    /\ thrVars' = thrVars
                    /\ <<next, val, strong, drops, created, released>>' =
                           <<next, val, strong, drops, created, released>>
                    /\ IF ext' = ext
                       THEN ptr'[s] = Null
                       ELSE /\ ptr'[s] # Null
                            /\ ext[ptr'[s]] >= 1
                            /\ ext' = [ext EXCEPT ![ptr'[s]] = @ - 1]
                            /\ Alive(ptr'[s])
          /\ \A t \in Threads :
                /\ (pc[t] = "idle" /\ pc'[t] = "set_cas") =>
                       /\ ext[traw'[t]] >= 1
                       /\ ext' = [ext EXCEPT ![traw'[t]] = @ - 1]
                       /\ <<next, val, strong, drops, created, released>>' =
                              <<next, val, strong, drops, created, released>>
                       /\ ptr' = ptr
                /\ (pc[t] = "set_cas" /\ pc'[t] = "idle") =>
                       /\ ptr[tslot[t]] = Null
                       /\ ptr' = [ptr EXCEPT ![tslot[t]] = traw[t]]
                       /\ heapVars' = heapVars]_vars

\* A slot built by from(Some(v)) and a slot built by create() and set(w), both
\* Set, with a deref holding a reference into each.
C14_Witness ==
    \E s1, s2 \in Slots, t1, t2 \in Threads :
        /\ Live(s1) /\ origin[s1] = 0 /\ initial[s1] # Null /\ ptr[s1] = initial[s1]
        /\ Live(s2) /\ origin[s2] = 0 /\ initial[s2] = Null /\ setOk[s2] = 1
        /\ pc[t1] = "deref_ref" /\ tslot[t1] = s1 /\ sync[t1]
        /\ pc[t2] = "deref_ref" /\ tslot[t2] = s2 /\ sync[t2]

----------------------------------------------------------------------------
\* C15: OptionArc.  In every state the strong count of an allocation equals
\* the number of its owners that exist: handles held outside the slots (the
\* owners into_inner returned among them, and the argument of a set call until
\* the call has installed or released it) plus the live slots holding its
\* address.  A successful compare-and-swap of set, the steps of deref and an
\* into_inner leave every count unchanged; the clone of a Set slot adds
\* exactly one to the count of its address; the drop of a Set slot subtracts
\* exactly one.
C15_StrongCountIsOwners ==
    /\ [](kind = "Arc" =>
             \A a \in Addrs :
                 /\ strong[a] = ext[a] + SlotOwners(a) + RawOwners(a)
                 /\ strong[a] >= 1 => Alive(a))
    /\ [][kind = "Arc" =>
             /\ \A t \in Threads :
                    /\ (pc[t] = "set_cas" /\ pc'[t] = "idle") => strong' = strong
                    /\ (pc[t] \in {"deref_load", "deref_ref"} /\ pc'[t] # pc[t]) =>
                           strong' = strong
             /\ \A s \in Slots :
                    /\ (Live(s) /\ slotState'[s] = "consumed") => strong' = strong
                    /\ (~Live(s) /\ Live(s)' /\ origin'[s] # 0 /\ ptr'[s] # Null) =>
                           strong' = [strong EXCEPT ![ptr'[s]] = @ + 1]
                    /\ (Live(s) /\ slotState'[s] = "dropped" /\ ptr[s] # Null) =>
                           strong' = [strong EXCEPT ![ptr[s]] = @ - 1]]_vars

\* An allocation with three owners: a handle outside, a slot and its clone.
C15_Witness ==
    /\ kind = "Arc"
    /\ \E a \in Addrs :
          /\ ext[a] = 1
          /\ SlotOwners(a) = 2
          /\ strong[a] = 3
          /\ \E s \in Slots : Live(s) /\ ptr[s] = a /\ setOk[s] = 1

----------------------------------------------------------------------------
\* Thread t is inside a call of set, deref or clone.
InCall(t) == pc[t] \notin {"idle", "panicked"}

\* Steps left, at most, to the end of the call the thread is in.
StepsLeft(p) ==
    CASE p = "set_cas" -> 3
      [] p = "set_drop" -> 2
      [] p = "set_panic" -> 1
      [] p = "deref_load" -> 2
      [] p = "deref_ref" -> 1
      [] p = "clone_load" -> 2
      [] p = "clone_dup" -> 1
      [] OTHER -> 0

\* C16: a thread inside a call can always take its next step, whatever the
\* other threads do or do not do (no call waits on another thread); every
\* step of a call brings it nearer to its end, so no step is ever repeated: a
\* set call makes one compare-and-swap attempt and then returns or goes on to
\* release its argument and panic; and every call of set, deref and clone
\* that is begun ends, by returning or by a panic.
C16_CallsTerminate ==
    /\ [](\A t \in Threads : InCall(t) => ENABLED <<ThreadStep(t)>>_vars)
    /\ [][\A t \in Threads :
             /\ (InCall(t) /\ pc'[t] # pc[t]) => StepsLeft(pc'[t]) < StepsLeft(pc[t])
             /\ (pc[t] = "set_cas" /\ pc'[t] # pc[t]) =>
                    \/ pc'[t] = "idle" /\ ptr[tslot[t]] = Null
                    \/ pc'[t] = "set_drop" /\ ptr[tslot[t]] # Null]_vars
    /\ \A t \in Threads : InCall(t) ~> ~InCall(t)

\* Every thread is inside a call on one slot, one at the compare-and-swap of
\* set and one in deref or clone.
C16_Witness ==
    \E s \in Slots, t \in Threads :
        /\ \A u \in Threads : InCall(u) /\ tslot[u] = s
        /\ pc[t] = "set_cas"
        /\ \E u \in Threads : pc[u] \in {"deref_load", "clone_load", "set_drop"}

----------------------------------------------------------------------------
\* C17: no step of a clone call changes the address of an existing slot,
\* releases an owner or destroys a value.  The clone of a slot whose address
\* the call loaded as null is Empty, and the heap is as it was.  When the
\* clone of a Set slot is built, the original keeps its address, its value
\* stays alive and its strong count does not fall: the owner made for the
\* borrow is not released.
C17_CloneLeavesOriginal ==
    [][/\ \A t \in Threads :
             ((pc[t] \in {"clone_load", "clone_dup"} \/ pc'[t] \in {"clone_load", "clone_dup"})
                  /\ pc'[t] # pc[t]) =>
                 /\ \A s \in Slots : Live(s) => (Live(s)' /\ ptr'[s] = ptr[s])
                 /\ released' = released
                 /\ drops' = drops
                 /\ ext' = ext
                 /\ \A a \in Addrs : strong'[a] >= strong[a]
       /\ \A s \in Slots :
             (~Live(s) /\ Live(s)' /\ origin'[s] # 0) =>
                 LET o == origin'[s] IN
                 IF ptr[o] = Null
                 THEN ptr'[s] = Null /\ heapVars' = heapVars
                 ELSE /\ ptr'[s] # Null
                      /\ ptr'[o] = ptr[o]
                      /\ val'[ptr[o]] = val[ptr[o]]
                      /\ strong'[ptr[o]] >= 1
                      /\ drops'[ptr[o]] = 0
                      /\ released'[ptr[o]] = released[ptr[o]]]_vars

\* A Set slot and its clone, with no owner released and no value destroyed so
\* far.
C17_Witness ==
    \E s1, s2 \in Slots :
        /\ origin[s2] = s1
        /\ Live(s1) /\ Live(s2)
        /\ ptr[s1] # Null /\ initial[s2] # Null
        /\ Alive(ptr[s1])
        /\ \A a \in Addrs : released[a] = 0 /\ drops[a] = 0

----------------------------------------------------------------------------
\* C18: on a live slot constructed by from(Some(v)) no set call ever succeeds.
\* The slot keeps v's address, and v stays alive (for a Box: no release and no
\* destruction of v at all).  Every set call on it fails its compare-and-swap,
\* releases its own argument exactly once, and ends in the already-set panic.
C18_SetOnFromSomeFails ==
    /\ [](\A s \in Slots :
             (Live(s) /\ origin[s] = 0 /\ initial[s] # Null) =>
                 /\ setOk[s] = 0
                 /\ ptr[s] = initial[s]
                 /\ installed[s] = initial[s]
                 /\ Alive(ptr[s])
                 /\ strong[ptr[s]] >= SlotOwners(ptr[s])
                 /\ kind = "Box" => (released[ptr[s]] = 0 /\ drops[ptr[s]] = 0)
                 /\ \A t \in Threads :
                        tslot[t] = s =>
                            /\ pc[t] = "set_drop" => tfreed[t] = 0
                            /\ pc[t] = "set_panic" => tfreed[t] = 1
                            /\ (pc[t] = "panicked" /\ traw[t] = Null) =>
                                   err[t] = "already_set")
    /\ [][\A t \in Threads :
             (tslot[t] # 0 /\ Live(tslot[t]) /\ origin[tslot[t]] = 0
                  /\ initial[tslot[t]] # Null /\ pc'[t] # pc[t]) =>
                 /\ pc[t] = "set_cas" => (pc'[t] = "set_drop" /\ ptr' = ptr)
                 /\ pc[t] = "set_drop" =>
                        /\ pc'[t] = "set_panic"
                        /\ released' = [released EXCEPT ![traw[t]] = @ + 1]
                        /\ ptr' = ptr
                 /\ pc[t] = "set_panic" =>
                        (pc'[t] = "panicked" /\ err'[t] = "already_set")]_vars

\* Every thread called set on a slot built by from(Some(v)) and panicked; the
\* slot still holds v.
C18_Witness ==
    \E s \in Slots :
        /\ Live(s) /\ origin[s] = 0 /\ initial[s] # Null
        /\ ptr[s] = initial[s]
        /\ SetErr(s) = NThreads
        /\ Alive(ptr[s])

----------------------------------------------------------------------------
\* C19: OptionArc.  A set call that loses with a handle to the allocation the
\* slot already holds releases that handle by lowering the strong count by
\* exactly one, from two or more, and destroys nothing (creating the handle
\* had raised the count by exactly one, so the count is back where it was).
\* Afterwards the slot still holds the address, the value is alive, the count
\* is the number of owners that remain, and a deref of the slot passes its
\* assertion and reads the value.
C19_LoserSharesAllocation ==
    /\ [](\A t \in Threads :
             (Losing(t) /\ traw[t] = ptr[tslot[t]]) =>
                 /\ kind = "Arc"
                 /\ Live(tslot[t])
                 /\ Alive(traw[t])
                 /\ strong[traw[t]] = LiveOwners(traw[t])
                 /\ pc[t] = "set_drop" => strong[traw[t]] >= 2
                 /\ pc[t] = "set_panic" => (tfreed[t] = 1 /\ strong[traw[t]] >= 1)
                 /\ \A u \in Threads :
                        (pc[u] = "deref_ref" /\ tslot[u] = tslot[t]) =>
                            /\ traw[u] = traw[t]
                            /\ ReadOutcomes(u, traw[u]) = {val[traw[t]]})
    /\ [][/\ \A t \in Threads :
                (pc[t] = "set_drop" /\ pc'[t] # pc[t] /\ traw[t] = ptr[tslot[t]]) =>
                    /\ strong' = [strong EXCEPT ![traw[t]] = @ - 1]
                    /\ drops' = drops
                    /\ val' = val
                    /\ ptr' = ptr
          /\ \A t, u \in Threads :
                (pc[t] = "set_panic" /\ traw[t] = ptr[tslot[t]]
                     /\ tslot[u] = tslot[t]
                     /\ pc[u] = "deref_load" /\ pc'[u] # pc[u]) =>
                    (pc'[u] = "deref_ref" /\ traw'[u] = traw[t])
          /\ \A a \in Addrs :
                (kind = "Arc" /\ ext'[a] = ext[a] + 1 /\ created'[a] = created[a] + 1
                     /\ created[a] >= 1) =>
                    strong' = [strong EXCEPT ![a] = @ + 1]]_vars

\* A set call lost with a handle to the allocation the slot holds and has
\* released it, while a deref of the slot holds a reference to the value.
C19_Witness ==
    \E t, u \in Threads :
        /\ pc[t] = "set_panic"
        /\ traw[t] = ptr[tslot[t]]
        /\ tfreed[t] = 1
        /\ pc[u] = "deref_ref" /\ tslot[u] = tslot[t]
        /\ Alive(traw[t])

----------------------------------------------------------------------------
\* C20: a clone call that has loaded a non-null address holds the address the
\* winning set installed in the slot (or the slot was constructed with),
\* through a load that synchronised with that store; it is the address of a
\* live value, and the address of a losing call's argument only when that
\* argument is an Arc handle to the winner's allocation.  The clone it builds
\* is Empty if the load saw null, and otherwise holds a duplicate of that
\* value at a fresh address (Box) or one more owner of that allocation (Arc).
\* The clone is a slot of its own: the compare-and-swap of a set on an Empty
\* slot succeeds whatever the other slots hold, and no step of a set call
\* changes the address of any slot but the one it was called on.
C20_CloneRacingSet ==
    /\ [](\A t \in Threads :
             pc[t] = "clone_dup" =>
                 /\ traw[t] # Null
                 /\ traw[t] = ptr[tslot[t]]
                 /\ traw[t] = installed[tslot[t]]
                 /\ sync[t]
                 /\ Alive(traw[t])
                 /\ ReadOutcomes(t, traw[t]) = {val[traw[t]]}
                 /\ \A u \in Threads :
                        (Losing(u) /\ tslot[u] = tslot[t] /\ traw[u] = traw[t]) =>
                            kind = "Arc")
    /\ [][/\ \A s \in Slots :
                (~Live(s) /\ Live(s)' /\ origin'[s] # 0) =>
                    LET o == origin'[s] IN
                    /\ ptr[o] \in {Null, installed[o]}
                    /\ ptr[o] = Null => ptr'[s] = Null
                    /\ (ptr[o] # Null /\ kind = "Arc") =>
                           /\ ptr'[s] = installed[o]
                           /\ strong' = [strong EXCEPT ![installed[o]] = @ + 1]
                    /\ (ptr[o] # Null /\ kind = "Box") =>
                           /\ val[ptr'[s]] = 0
                           /\ val'[ptr'[s]] = val[installed[o]]
                           /\ strong'[ptr'[s]] = 1
          /\ \A t \in Threads :
                (pc[t] \in {"set_cas", "set_drop", "set_panic"} /\ pc'[t] # pc[t]) =>
                    /\ \A s \in Slots \ {tslot[t]} : ptr'[s] = ptr[s]
                    /\ (pc[t] = "set_cas" /\ ptr[tslot[t]] = Null) =>
                           /\ pc'[t] = "idle"
                           /\ ptr'[tslot[t]] = traw[t]]_vars

\* A clone call holds the winner's address while another thread's set on the
\* same slot has just lost.
C20_Witness ==
    \E t, u \in Threads :
        /\ pc[t] = "clone_dup"
        /\ Losing(u)
        /\ tslot[u] = tslot[t]
        /\ initial[tslot[t]] = Null
        /\ setOk[tslot[t]] = 1
        /\ traw[t] = installed[tslot[t]]

====
